---- MODULE Spec2Model ----
(***************************************************************************)
(* Model of fitgirl_comment_exporter.py: the parser (parse_user,           *)
(* parse_comment), the collection engine (collect_all_comments: first      *)
(* page, older pages, per-thread completion) and the two embedding passes  *)
(* (embed_avatars, embed_linked_images) on top of url_to_data_uri.         *)
(* The remote API is the environment: every call either fails at the       *)
(* transport level or returns any batch of raw records.                    *)
(***************************************************************************)
EXTENDS Integers, Sequences, FiniteSets, Bags, TLC

----------------------------------------------------------------------------
(* Bounds of the model *)

\* longest batch of raw records a first-page or older-page call returns
MaxBatch == 2

\* longest batch of raw records a thread-fetch call returns
MaxThreadBatch == 1

\* largest value of the max_pages argument a run is started with
MaxPagesCap == 2

----------------------------------------------------------------------------
(* Raw JSON values.  A field of a raw record is absent, null, a string    *)
(* that is not a number (t = "str"), or an integer.                        *)

Absent == [t |-> "absent", v |-> 0]
Null == [t |-> "null", v |-> 0]
Num(n) == [t |-> "int", v |-> n]

\* marker for "the conversion raised"
Raise == [t |-> "raise", v |-> 0]

\* dict.get(key, default): the default replaces an absent key only
Get(x, d) == IF x.t = "absent" THEN d ELSE x

\* Python truthiness of a raw value
Truthy(x) == x.t = "str" \/ (x.t = "int" /\ x.v # 0)

\* x or d
Or(x, d) == IF Truthy(x) THEN x ELSE d

\* int(x): TypeError on None, ValueError on a non-numeric string
IntOf(x) == IF x.t = "int" THEN x ELSE Raise

\* c[key]: KeyError on an absent key
Subscript(x) == IF x.t = "absent" THEN Raise ELSE x

----------------------------------------------------------------------------
(* URLs *)

AvaUrl == "https://cdn/ava.png"
PicUrl == "https://img/pic.jpg"
PageUrl == "https://site/page.html"

Urls == {AvaUrl, PicUrl, PageUrl}

\* the URLs whose path ends in one of IMAGE_EXTS
ImageUrls == {AvaUrl, PicUrl}

looks_like_image(url) == url \in ImageUrls

\* sorted(urls): the URLs in lexicographic order
SortedUrls == <<AvaUrl, PicUrl, PageUrl>>

\* the user object of a raw record: absent, null, a non-object, or a dict
NoUser(shape) == [t |-> shape, ava |-> ""]
UserDict(ava) == [t |-> "dict", ava |-> ava]

----------------------------------------------------------------------------
(* The raw records the server may return *)

RawRec(id, sort, root, cnt, ref, user, links) ==
    [id |-> id, sort |-> sort, answer_comment_root_id |-> root,
     answer_comment_count |-> cnt, data_id |-> ref, user |-> user,
     comment_type |-> Num(0), raiting |-> Absent, links |-> links]

\* root 1, expects one reply
RootA == RawRec(Num(1), Num(2), Num(0), Num(1), 0, UserDict(AvaUrl), {})
\* root 2, expects one reply, links the picture that is also an avatar
RootB == RawRec(Num(2), Num(1), Absent, Num(1), 0, UserDict(AvaUrl), {AvaUrl, PageUrl})
\* reply 3 in the thread of root 2
ReplyC == RawRec(Num(3), Num(3), Num(2), Null, 0, NoUser("null"), {PicUrl})
\* a later sighting of id 1 with other field values and no sort key
RootA2 == RawRec(Num(1), Absent, Null, Absent, 0, NoUser("absent"), {})
\* a record without the mandatory id
NoId == RawRec(Absent, Num(4), Num(0), Num(0), 0, UserDict(""), {})
\* a record with an id and a null sort key
NullSort == RawRec(Num(4), Null, Num(0), Num(0), 0, UserDict(""), {})

RawRecords == {RootA, RootB, ReplyC, RootA2, NoId, NullSort}

\* records served by a scripted mock API only
\* four roots without replies, sort keys 10, 20, 15 and 5
Sort10 == RawRec(Num(5), Num(10), Num(0), Num(0), 0, NoUser("absent"), {})
Sort20 == RawRec(Num(6), Num(20), Num(0), Num(0), 0, NoUser("absent"), {})
Sort15 == RawRec(Num(7), Num(15), Num(0), Num(0), 0, NoUser("absent"), {})
Sort5 == RawRec(Num(8), Num(5), Num(0), Num(0), 0, NoUser("absent"), {})
\* two replies to root 2 with the sort key of ReplyC, a root with that of RootB
TieE == RawRec(Num(9), Num(3), Num(2), Num(0), 0, NoUser("absent"), {})
TieF == RawRec(Num(10), Num(3), Num(2), Num(0), 0, NoUser("absent"), {})
\* (the body of that root carries a reply anchor naming comment 9)
RootT == RawRec(Num(11), Num(1), Num(0), Num(0), 9, NoUser("absent"), {})
\* two replies to root 2 whose reply anchors name each other
CycE == RawRec(Num(12), Num(4), Num(2), Num(0), 13, NoUser("absent"), {})
CycF == RawRec(Num(13), Num(5), Num(2), Num(0), 12, NoUser("absent"), {})
\* a reply to root 2 whose reply anchor names reply 3
NestG == RawRec(Num(14), Num(1), Num(2), Num(0), 3, NoUser("absent"), {})
\* a reply to root 2 whose reply anchor names the reply itself
SelfH == RawRec(Num(15), Num(6), Num(2), Num(0), 15, NoUser("absent"), {})

Ids == 1..15

RECURSIVE SeqsUpTo(_, _)
SeqsUpTo(S, n) ==
    IF n = 0 THEN {<<>>}
    ELSE LET shorter == SeqsUpTo(S, n - 1)
         IN shorter \cup {Append(s, x) : s \in {q \in shorter : Len(q) = n - 1}, x \in S}

\* the "comments" array of one API response
Batches == SeqsUpTo(RawRecords, MaxBatch)

\* the "comments" array of one answer to a thread fetch
ThreadBatches == SeqsUpTo(RawRecords, MaxThreadBatch)

\* what a scripted mock API answers to the first call and then to the
\* older-page calls, in order; once the script is over it returns no records
EndToEndScript == << <<Sort10, Sort20, Sort15>>, <<Sort5>>, <<>> >>
TieScript == << <<TieF, RootB, TieE, NestG>>, <<RootT, Sort5>>, <<ReplyC>> >>
CycleScript == << <<RootB, CycE, CycF, SelfH>>, <<NestG, ReplyC>> >>
MinScript == << <<RootA, NestG>> >>

Scripts == {EndToEndScript, TieScript, CycleScript, MinScript}

\* the API of a run: a server free to return any batch, or a scripted mock
FreeServer == [on |-> FALSE, pending |-> <<>>, served |-> <<>>]
MockServer(script) == [on |-> TRUE, pending |-> script, served |-> <<>>]

\* the batches the API may return to the next first-page or older-page call
Responses(api) ==
    IF api.on
    THEN {IF api.pending = <<>> THEN <<>> ELSE Head(api.pending)}
    ELSE Batches

\* the API after it returned batch
Served(api, batch) ==
    IF api.on
    THEN [api EXCEPT !.pending = IF @ = <<>> THEN @ ELSE Tail(@),
                     !.served = Append(@, batch)]
    ELSE api

----------------------------------------------------------------------------
(* Parsing *)

parse_user(u) ==
    [ava |-> IF u.t = "dict" THEN u.ava ELSE "", ava_data_uri |-> ""]

\* u.get(...) on the value of `c.get("user") or {}`: a non-object has no get
parse_user_raises(u) == u.t = "str"

\* the integer conversions of parse_comment, in evaluation order
rating_of(c) == IF c.raiting.t = "dict" THEN IntOf(Get(c.raiting.val, Num(0))) ELSE Num(0)
reply_expected_of(c) == IntOf(Or(Get(c.answer_comment_count, Num(0)), Num(0)))
id_of(c) == IntOf(Subscript(c.id))
sort_of(c) == IntOf(Get(c.sort, Num(0)))
comment_type_of(c) == IntOf(Get(c.comment_type, Num(0)))
root_id_of(c) == IntOf(Or(Get(c.answer_comment_root_id, Num(0)), Num(0)))

parse_comment_raises(c) ==
    \/ rating_of(c) = Raise
    \/ reply_expected_of(c) = Raise
    \/ id_of(c) = Raise
    \/ parse_user_raises(c.user)
    \/ sort_of(c) = Raise
    \/ comment_type_of(c) = Raise
    \/ root_id_of(c) = Raise

\* the Comment built from a raw record on which nothing raises;
\* parent_id is the data-id of the reply anchor in the body, 0 without one
parse_comment(c) ==
    [id |-> id_of(c).v,
     user |-> parse_user(c.user),
     rating |-> rating_of(c).v,
     sort |-> sort_of(c).v,
     comment_type |-> comment_type_of(c).v,
     answer_comment_root_id |-> root_id_of(c).v,
     links |-> c.links,
     parent_id |-> c.data_id,
     reply_expected |-> reply_expected_of(c).v]

----------------------------------------------------------------------------
(* Merging a batch into the collection *)

IsNewAlways(cm, seenSet) == TRUE

\* `cm.id not in seen`
IsNew(cm, seenSet) == cm.id \notin seenSet

\* comms with the comment of cm's id replaced by cm
Overwrite(comms, cm) ==
    [i \in DOMAIN comms |-> IF comms[i].id = cm.id THEN cm ELSE comms[i]]

RECURSIVE MergeBatchOverwrite(_, _, _, _)
MergeBatchOverwrite(batch, seenSet, comms, added) ==
    IF batch = <<>>
    THEN [seen |-> seenSet, comments |-> comms, added |-> added, raised |-> <<>>]
    ELSE IF parse_comment_raises(Head(batch))
    THEN [seen |-> seenSet, comments |-> comms, added |-> added,
          raised |-> <<Head(batch)>>]
    ELSE LET cm == parse_comment(Head(batch))
         IN IF IsNew(cm, seenSet)
            THEN MergeBatchOverwrite(Tail(batch), seenSet \cup {cm.id},
                                     Append(comms, cm), added + 1)
            ELSE MergeBatchOverwrite(Tail(batch), seenSet, Overwrite(comms, cm), added)

RECURSIVE MergeBatchPrepend(_, _, _, _)
MergeBatchPrepend(batch, seenSet, comms, added) ==
    IF batch = <<>>
    THEN [seen |-> seenSet, comments |-> comms, added |-> added, raised |-> <<>>]
    ELSE IF parse_comment_raises(Head(batch))
    THEN [seen |-> seenSet, comments |-> comms, added |-> added,
          raised |-> <<Head(batch)>>]
    ELSE LET cm == parse_comment(Head(batch))
         IN IF IsNew(cm, seenSet)
            THEN MergeBatchPrepend(Tail(batch), seenSet \cup {cm.id},
                                   <<cm>> \o comms, added + 1)
            ELSE MergeBatchPrepend(Tail(batch), seenSet, comms, added)

\* the loop `for c in raw: cm = parse_comment(c); if cm.id not in seen: ...`
\* raised holds the record on which parse_comment raised, if any
RECURSIVE MergeBatch(_, _, _, _)
MergeBatch(batch, seenSet, comms, added) ==
    IF batch = <<>>
    THEN [seen |-> seenSet, comments |-> comms, added |-> added, raised |-> <<>>]
    ELSE IF parse_comment_raises(Head(batch))
    THEN [seen |-> seenSet, comments |-> comms, added |-> added,
          raised |-> <<Head(batch)>>]
    ELSE LET cm == parse_comment(Head(batch))
         IN IF IsNew(cm, seenSet)
            THEN MergeBatch(Tail(batch), seenSet \cup {cm.id}, Append(comms, cm), added + 1)
            ELSE MergeBatch(Tail(batch), seenSet, comms, added)

RECURSIVE MinSort(_)
MinSort(comms) ==
    IF Len(comms) = 1 THEN comms[1].sort
    ELSE LET m == MinSort(Tail(comms))
         IN IF comms[1].sort <= m THEN comms[1].sort ELSE m

last_fetched_sort(comms) == IF comms = <<>> THEN 0 ELSE comms[Len(comms)].sort

first_fetched_sort(comms) == IF comms = <<>> THEN 0 ELSE comms[1].sort

\* the largest sort key held
RECURSIVE MaxSort(_)
MaxSort(comms) ==
    IF comms = <<>> THEN 0
    ELSE IF Len(comms) = 1 THEN Head(comms).sort
    ELSE LET m == MaxSort(Tail(comms))
         IN IF Head(comms).sort > m THEN Head(comms).sort ELSE m

current_max_sort(comms) == MaxSort(comms)

\* min((c.sort for c in comments), default=0)
current_min_sort(comms) == IF comms = <<>> THEN 0 ELSE MinSort(comms)

WithinCapInclusive(done, cap) == done <= cap

\* `while pages_done < max_pages`
WithinCap(done, cap) == done < cap

StopOnNoNewNever(added) == FALSE

\* `if added == 0: break`
StopOnNoNew(added) == added = 0

\* sum(1 for c in comments if c.answer_comment_root_id == rid)
CountInThread(comms, rid) ==
    Cardinality({i \in DOMAIN comms : comms[i].answer_comment_root_id = rid})

\* by_root_count as built before the thread loop; a missing key reads as 0
ByRootCount(comms) == [rid \in Ids |-> CountInThread(comms, rid)]

NeedsBackfillOrEqual(expected, have) == expected >= have

\* `if expected > have`
NeedsBackfill(expected, have) == expected > have

\* roots = [c for c in comments if c.answer_comment_root_id == 0]
RootsOf(comms) == SelectSeq(comms, LAMBDA c : c.answer_comment_root_id = 0)

----------------------------------------------------------------------------
(* Binary embedding *)

MAX_RETRIES == 3

\* delay = 0.25, in hundredths of a second
BASE_DELAY == 25

\* what one GET of url_to_data_uri does: 200 with content, any other
\* response, or a requests.RequestException
AttemptOutcomes == {"ok", "bad_response", "exception"}

None == "None"
Missing == "missing"

\* f"data:{ctype};base64,{b64}"
DataUri(url) == "data:" \o url

RECURSIVE AttemptsNoCatch(_, _, _, _, _)
AttemptsNoCatch(url, outcomes, k, delay, sleeps) ==
    IF k > MAX_RETRIES
    THEN [result |-> None, attempts |-> k - 1, sleeps |-> sleeps, raised |-> FALSE]
    ELSE IF outcomes[k] = "ok"
    THEN [result |-> DataUri(url), attempts |-> k, sleeps |-> sleeps, raised |-> FALSE]
    ELSE IF outcomes[k] = "exception"
    THEN [result |-> None, attempts |-> k, sleeps |-> sleeps, raised |-> TRUE]
    ELSE AttemptsNoCatch(url, outcomes, k + 1, delay * 2, Append(sleeps, delay))

\* the retry loop from attempt k on; delay is in hundredths of a second.
\* A requests.RequestException is caught and counts as a failed attempt,
\* so nothing is raised.
RECURSIVE Attempts(_, _, _, _, _)
Attempts(url, outcomes, k, delay, sleeps) ==
    IF k > MAX_RETRIES
    THEN [result |-> None, attempts |-> k - 1, sleeps |-> sleeps, raised |-> FALSE]
    ELSE IF outcomes[k] = "ok"
    THEN [result |-> DataUri(url), attempts |-> k, sleeps |-> sleeps, raised |-> FALSE]
    ELSE Attempts(url, outcomes, k + 1, delay * 2, Append(sleeps, delay))

\* a first delay of 0.5 s
url_to_data_uri_slow_start(url, outcomes) ==
    Attempts(url, outcomes, 1, 2 * BASE_DELAY, <<>>)

url_to_data_uri(url, outcomes) == Attempts(url, outcomes, 1, BASE_DELAY, <<>>)

AvatarUrlsPerComment(comms) ==
    [u \in {comms[i].user.ava : i \in DOMAIN comms} \ {""} |->
        Cardinality({i \in DOMAIN comms : comms[i].user.ava = u})]

\* urls = set(c.user.ava for c in comments if c.user.ava), as a bag in which
\* every URL occurs once
AvatarUrls(comms) ==
    SetToBag({comms[i].user.ava : i \in DOMAIN comms} \ {""})

\* cache.get(url) is truthy
CacheHit(cache, url) == cache[url] \notin {Missing, None}

\* the back-fill loop of embed_avatars
BackfillAvatars(comms, cache) ==
    [i \in DOMAIN comms |->
        IF comms[i].user.ava # "" /\ CacheHit(cache, comms[i].user.ava)
        THEN [comms[i] EXCEPT !.user.ava_data_uri = cache[comms[i].user.ava]]
        ELSE comms[i]]

\* the candidate URLs of one comment (hrefs, bare URLs, rich previews)
discover_image_links(c) == {u \in c.links : looks_like_image(u)}

\* all_urls of embed_linked_images
AllImageUrls(comms) == UNION {discover_image_links(comms[i]) : i \in DOMAIN comms}

\* the (url, data_uri) pairs of one comment, in sorted URL order
ItemsOf(c, cache) ==
    SelectSeq([k \in DOMAIN SortedUrls |-> <<SortedUrls[k], cache[SortedUrls[k]]>>],
              LAMBDA p : p[1] \in discover_image_links(c) /\ CacheHit(cache, p[1]))

\* by_comment of embed_linked_images: comment id -> items, absent when empty
ImgsByComment(comms, cache) ==
    [cid \in {comms[i].id : i \in {j \in DOMAIN comms : ItemsOf(comms[j], cache) # <<>>}} |->
        ItemsOf(comms[CHOOSE i \in DOMAIN comms : comms[i].id = cid], cache)]

----------------------------------------------------------------------------
(* Tree assembly (build_html) *)

\* by_id = {c.id: c for c in comments}, as its key set
ById(comms) == {comms[i].id : i \in DOMAIN comms}

KeepParents(comms) == comms

\* the parent inference loop of build_html
Reconcile(comms) ==
    [i \in DOMAIN comms |->
        IF comms[i].answer_comment_root_id = 0
        THEN [comms[i] EXCEPT !.parent_id = 0]
        ELSE IF comms[i].parent_id # 0 /\ comms[i].parent_id \in ById(comms)
        THEN comms[i]
        ELSE [comms[i] EXCEPT !.parent_id = comms[i].answer_comment_root_id]]

\* every reply listed under its parent and under its root as well
ChildrenOfEither(comms) ==
    [p \in Ids |->
        SelectSeq(comms, LAMBDA c :
            /\ c.answer_comment_root_id # 0
            /\ (c.parent_id = p \/ c.answer_comment_root_id = p))]

\* children.setdefault(c.parent_id, []).append(c) over the non-roots;
\* a parent without an entry reads as the empty list
ChildrenOf(comms) ==
    [p \in Ids |->
        SelectSeq(comms, LAMBDA c : c.answer_comment_root_id # 0 /\ c.parent_id = p)]

\* x put into the sorted list s, after every element whose key is equal;
\* dir is 1 for ascending sort keys and -1 for descending ones
RECURSIVE InsertSorted(_, _, _)
InsertSorted(x, s, dir) ==
    IF s = <<>> THEN <<x>>
    ELSE IF dir * x.sort < dir * Head(s).sort THEN <<x>> \o s
    ELSE <<Head(s)>> \o InsertSorted(x, Tail(s), dir)

\* sorted(s, key=lambda x: x.sort, reverse=(dir = -1)): a stable sort
RECURSIVE Sorted(_, _)
Sorted(s, dir) ==
    IF s = <<>> THEN <<>>
    ELSE InsertSorted(s[Len(s)], Sorted(SubSeq(s, 1, Len(s) - 1), dir), dir)

Reversed(s) == [i \in DOMAIN s |-> s[Len(s) + 1 - i]]

sorted_roots_reversed(rs) == Reversed(Sorted(rs, 1))

\* sorted(roots, key=lambda x: x.sort, reverse=True)
sorted_roots(rs) == Sorted(rs, -1)

\* sorted(kids, key=lambda x: x.sort) in render_reply_tree
sorted_kids(kids) == Sorted(kids, 1)

\* Rendering yields the ids of the comments it emits, in document order,
\* and whether the walk ended; depth is the number of nested calls of
\* render_reply_tree still allowed.  A walk nested deeper than the number
\* of comments has come back to a comment it is already inside, so it never
\* ends (in Python, RecursionError): it is cut there with ok = FALSE.
RECURSIVE render_reply_tree(_, _, _)
RECURSIVE render_kids(_, _, _)

\* the loop `for rc in sorted(kids, ...)`: each reply, then its own replies
render_kids(kids, children_map, depth) ==
    IF kids = <<>> THEN [ids |-> <<>>, ok |-> TRUE]
    ELSE LET rc == Head(kids)
             child_html == render_reply_tree(rc.id, children_map, depth - 1)
             rest == render_kids(Tail(kids), children_map, depth)
         IN [ids |-> <<rc.id>> \o child_html.ids \o rest.ids,
             ok |-> child_html.ok /\ rest.ok]

render_reply_tree(node_id, children_map, depth) ==
    IF depth = 0 THEN [ids |-> <<>>, ok |-> FALSE]
    ELSE render_kids(sorted_kids(children_map[node_id]), children_map, depth)

\* the root, then its replies
render_root(root, children_map, depth) ==
    LET replies_html == render_reply_tree(root.id, children_map, depth)
    IN [ids |-> <<root.id>> \o replies_html.ids, ok |-> replies_html.ok]

\* items = [render_root(r, children, imgs_by_comment) for r in roots_sorted]
RECURSIVE RenderItems(_, _, _)
RenderItems(rs, children_map, depth) ==
    IF rs = <<>> THEN [ids |-> <<>>, ok |-> TRUE]
    ELSE LET first == render_root(Head(rs), children_map, depth)
             rest == RenderItems(Tail(rs), children_map, depth)
         IN [ids |-> first.ids \o rest.ids, ok |-> first.ok /\ rest.ok]

----------------------------------------------------------------------------
(* State of one run of collect_all_comments *)

VARIABLES
    pc,             \* where the run is: first, paginate, threads, avatars,
                    \* images, done (returned) or aborted (raised)
    max_pages,      \* the safety cap the run was started with
    comments,       \* the collection, in insertion order
    seen,           \* ids in the collection
    pages_done,     \* older-page calls issued
    by_root_count,  \* root id -> replies counted for it
    roots,          \* the roots the thread loop iterates over
    ri,             \* position of the thread loop in roots
    ava_urls,       \* avatar URLs still to resolve
    ava_cache,      \* cache of embed_avatars
    img_urls,       \* linked-image URLs still to resolve
    img_cache,      \* cache of embed_linked_images
    ret,            \* what the run returned
    error,          \* the kind of exception that left the run, if any
    raised_on,      \* the raw record parse_comment raised on, if any
    first_raw,      \* the batch the first-page call returned
    all_same,       \* every older-page call so far returned first_raw
    first_failed,   \* the first-page call failed at the transport level
    page_failed,    \* an older-page call failed at the transport level
    thread_calls,   \* root id -> thread-fetch calls issued for it
    thread_fails,   \* root ids whose thread-fetch call failed
    ava_calls,      \* url -> url_to_data_uri invocations of the avatar pass
    img_calls,      \* url -> url_to_data_uri invocations of the image pass
    api,            \* the remote API: free, or a mock with its script
    cursors,        \* the cursors passed to the older-page calls, in order
    last_page,      \* records returned and added by the last older-page call
    roots_sorted,   \* build_html: the roots in rendering order
    children,       \* build_html: parent id -> direct replies
    items,          \* build_html: the ids of the comments rendered, in
                    \* document order, and whether rendering ended
    fetch_in,       \* a single url_to_data_uri call: its arguments
    fetch_out       \* a single url_to_data_uri call: its result

vars == <<pc, max_pages, comments, seen, pages_done, by_root_count, roots, ri,
          ava_urls, ava_cache, img_urls, img_cache, ret, error, raised_on,
          first_raw, all_same, first_failed, page_failed, thread_calls,
          thread_fails, ava_calls, img_calls, api, cursors, last_page,
          roots_sorted, children, items, fetch_in, fetch_out>>

collection == <<comments, seen>>
history == <<first_raw, all_same, first_failed, page_failed>>
calls == <<api, cursors, last_page>>
paging == <<pages_done, history, calls>>
tree == <<roots_sorted, children, items>>
fetching == <<fetch_in, fetch_out>>
\* what collect_all_comments never writes
fixed == <<max_pages, tree, fetching>>
threading == <<by_root_count, roots, ri, thread_calls, thread_fails>>
embedding == <<ava_urls, ava_cache, img_urls, img_cache, ava_calls, img_calls>>
outcome == <<ret, error, raised_on>>

NotReturned == [returned |-> FALSE, pages |-> 0, imgs_by_comment |-> <<>>]

NoPage == [returned |-> -1, added |-> -1]
NoFetchIn == [url |-> "", outcomes |-> <<>>]
NoFetchOut == [done |-> FALSE, result |-> None, attempts |-> 0, sleeps |-> <<>>,
               raised |-> FALSE]

\* the variables of one run before its first call
\* nothing rendered yet
NoItems == [ids |-> <<>>, ok |-> TRUE]

Start ==
    /\ cursors = <<>>
    /\ last_page = NoPage
    /\ roots_sorted = <<>>
    /\ children = [p \in Ids |-> <<>>]
    /\ items = NoItems
    /\ max_pages \in 0..MaxPagesCap
    /\ comments = <<>>
    /\ seen = {}
    /\ pages_done = 0
    /\ by_root_count = [rid \in Ids |-> 0]
    /\ roots = <<>>
    /\ ri = 1
    /\ ava_urls = EmptyBag
    /\ ava_cache = [u \in Urls |-> Missing]
    /\ img_urls = {}
    /\ img_cache = [u \in Urls |-> Missing]
    /\ ret = NotReturned
    /\ error = "none"
    /\ raised_on = <<>>
    /\ first_raw = <<>>
    /\ all_same = TRUE
    /\ first_failed = FALSE
    /\ page_failed = FALSE
    /\ thread_calls = [rid \in Ids |-> 0]
    /\ thread_fails = {}
    /\ ava_calls = [u \in Urls |-> 0]
    /\ img_calls = [u \in Urls |-> 0]

Init ==
    /\ Start
    /\ pc = "first"
    /\ api \in {FreeServer} \cup {MockServer(script) : script \in Scripts}
    /\ fetch_in = NoFetchIn
    /\ fetch_out = NoFetchOut

\* an exception leaves collect_all_comments: nothing is returned
Abort(kind, record) ==
    /\ pc' = "aborted"
    /\ error' = kind
    /\ raised_on' = record
    /\ ret' = NotReturned

\* the pagination loop is left: build by_root_count and roots
EnterThreads(comms) ==
    /\ pc' = "threads"
    /\ by_root_count' = ByRootCount(comms)
    /\ roots' = RootsOf(comms)
    /\ ri' = 1

----------------------------------------------------------------------------
(* 1) initial batch *)

FirstPageFailSwallowed ==
    /\ pc = "first"
    /\ first_failed' = TRUE
    /\ pc' = "paginate"
    /\ UNCHANGED <<fixed, collection, pages_done, first_raw, all_same,
                   page_failed, calls, threading, embedding, outcome>>

\* first_page raises (session.get or raise_for_status)
FirstPageFail ==
    /\ pc = "first"
    /\ first_failed' = TRUE
    /\ Abort("first_transport", <<>>)
    /\ UNCHANGED <<fixed, collection, pages_done, first_raw, all_same,
                   page_failed, calls, threading, embedding>>

FirstPageOk(batch) ==
    /\ pc = "first"
    /\ first_raw' = batch
    /\ api' = Served(api, batch)
    /\ LET m == MergeBatch(batch, {}, <<>>, 0)
       IN /\ comments' = m.comments
          /\ seen' = m.seen
          /\ IF m.raised # <<>>
             THEN Abort("parse", m.raised)
             ELSE pc' = "paginate" /\ UNCHANGED outcome
    /\ UNCHANGED <<fixed, pages_done, all_same, first_failed, page_failed,
                   cursors, last_page, threading, embedding>>

----------------------------------------------------------------------------
(* 2) paginate older *)

\* `while pages_done < max_pages` is false, or `if cursor <= 0: break`
PaginateExit ==
    /\ pc = "paginate"
    /\ ~WithinCap(pages_done, max_pages) \/ current_min_sort(comments) <= 0
    /\ EnterThreads(comments)
    /\ UNCHANGED <<fixed, collection, paging, thread_calls, thread_fails,
                   embedding, outcome>>

\* page_call raises; nothing in collect_all_comments catches it
PageCallFail ==
    /\ pc = "paginate"
    /\ WithinCap(pages_done, max_pages)
    /\ current_min_sort(comments) > 0
    /\ cursors' = Append(cursors, current_min_sort(comments))
    /\ page_failed' = TRUE
    /\ Abort("page_transport", <<>>)
    /\ UNCHANGED <<fixed, collection, pages_done, first_raw, all_same,
                   first_failed, api, last_page, threading, embedding>>

PageCallOk(batch) ==
    /\ pc = "paginate"
    /\ WithinCap(pages_done, max_pages)
    /\ current_min_sort(comments) > 0
    /\ cursors' = Append(cursors, current_min_sort(comments))
    /\ api' = Served(api, batch)
    /\ pages_done' = pages_done + 1
    /\ all_same' = (all_same /\ batch = first_raw)
    /\ LET m == MergeBatch(batch, seen, comments, 0)
       IN /\ last_page' = [returned |-> Len(batch), added |-> m.added]
          /\ comments' = m.comments
          /\ seen' = m.seen
          /\ IF m.raised # <<>>
             THEN Abort("parse", m.raised) /\ UNCHANGED threading
             ELSE /\ UNCHANGED outcome
                  /\ IF batch = <<>> \/ StopOnNoNew(m.added)
                     THEN EnterThreads(m.comments)
                          /\ UNCHANGED <<thread_calls, thread_fails>>
                     ELSE pc' = "paginate" /\ UNCHANGED threading
    /\ UNCHANGED <<fixed, first_raw, first_failed, page_failed, embedding>>

----------------------------------------------------------------------------
(* 3) per-thread completion via rootid *)

\* `if expected > have` is false for the current root
ThreadSkip ==
    /\ pc = "threads"
    /\ ri <= Len(roots)
    /\ ~NeedsBackfill(roots[ri].reply_expected, by_root_count[roots[ri].id])
    /\ ri' = ri + 1
    /\ UNCHANGED <<pc, fixed, collection, paging, by_root_count, roots,
                   thread_calls, thread_fails, embedding, outcome>>

ThreadCallFailRaises ==
    /\ pc = "threads"
    /\ ri <= Len(roots)
    /\ NeedsBackfill(roots[ri].reply_expected, by_root_count[roots[ri].id])
    /\ thread_calls' = [thread_calls EXCEPT ![roots[ri].id] = @ + 1]
    /\ thread_fails' = thread_fails \cup {roots[ri].id}
    /\ Abort("thread_transport", <<>>)
    /\ UNCHANGED <<fixed, collection, paging, by_root_count, roots, ri, embedding>>

\* thread_call raises requests.RequestException: `continue`
ThreadCallFail ==
    /\ pc = "threads"
    /\ ri <= Len(roots)
    /\ NeedsBackfill(roots[ri].reply_expected, by_root_count[roots[ri].id])
    /\ thread_calls' = [thread_calls EXCEPT ![roots[ri].id] = @ + 1]
    /\ thread_fails' = thread_fails \cup {roots[ri].id}
    /\ ri' = ri + 1
    /\ UNCHANGED <<pc, fixed, collection, paging, by_root_count, roots,
                   embedding, outcome>>

ThreadCallOk(batch) ==
    /\ pc = "threads"
    /\ ri <= Len(roots)
    /\ NeedsBackfill(roots[ri].reply_expected, by_root_count[roots[ri].id])
    /\ thread_calls' = [thread_calls EXCEPT ![roots[ri].id] = @ + 1]
    /\ LET m == MergeBatch(batch, seen, comments, 0)
       IN /\ comments' = m.comments
          /\ seen' = m.seen
          /\ IF m.raised # <<>>
             THEN Abort("parse", m.raised) /\ UNCHANGED <<by_root_count, ri>>
             ELSE /\ UNCHANGED <<pc, outcome>>
                  /\ ri' = ri + 1
                  /\ by_root_count' =
                        IF m.added # 0
                        THEN [by_root_count EXCEPT
                                ![roots[ri].id] = CountInThread(m.comments, roots[ri].id)]
                        ELSE by_root_count
    /\ UNCHANGED <<fixed, paging, roots, thread_fails, embedding>>

\* the thread loop is over: embed_avatars collects its URLs
ThreadsDone ==
    /\ pc = "threads"
    /\ ri > Len(roots)
    /\ pc' = "avatars"
    /\ ava_urls' = AvatarUrls(comments)
    /\ UNCHANGED <<fixed, collection, paging, threading, ava_cache, img_urls,
                   img_cache, ava_calls, img_calls, outcome>>

----------------------------------------------------------------------------
(* 4) avatars *)

\* one iteration of `for url in urls: cache[url] = url_to_data_uri(...)`
AvatarFetch(url, outcomes) ==
    /\ pc = "avatars"
    /\ BagIn(url, ava_urls)
    /\ ava_urls' = ava_urls (-) SetToBag({url})
    /\ ava_cache' = [ava_cache EXCEPT ![url] = url_to_data_uri(url, outcomes).result]
    /\ ava_calls' = [ava_calls EXCEPT ![url] = @ + 1]
    /\ UNCHANGED <<pc, fixed, collection, paging, threading, img_urls,
                   img_cache, img_calls, outcome>>

\* the back-fill loop of embed_avatars; embed_linked_images collects its URLs
AvatarsDone ==
    /\ pc = "avatars"
    /\ ava_urls = EmptyBag
    /\ comments' = BackfillAvatars(comments, ava_cache)
    /\ img_urls' = AllImageUrls(comments)
    /\ pc' = "images"
    /\ UNCHANGED <<fixed, seen, paging, threading, ava_urls, ava_cache,
                   img_cache, ava_calls, img_calls, outcome>>

----------------------------------------------------------------------------
(* 5) linked-image embedding *)

\* one iteration of `for url in all_urls: cache[url] = url_to_data_uri(...)`
ImageFetch(url, outcomes) ==
    /\ pc = "images"
    /\ url \in img_urls
    /\ img_urls' = img_urls \ {url}
    /\ img_cache' = [img_cache EXCEPT ![url] = url_to_data_uri(url, outcomes).result]
    /\ img_calls' = [img_calls EXCEPT ![url] = @ + 1]
    /\ UNCHANGED <<pc, fixed, collection, paging, threading, ava_urls,
                   ava_cache, ava_calls, outcome>>

\* `return meta, comments, imgs_by_comment`
Return ==
    /\ pc = "images"
    /\ img_urls = {}
    /\ pc' = "done"
    /\ ret' = [returned |-> TRUE, pages |-> pages_done,
               imgs_by_comment |-> ImgsByComment(comments, img_cache)]
    /\ UNCHANGED <<fixed, collection, paging, threading, embedding, error, raised_on>>

----------------------------------------------------------------------------
(* main: build_html on what collect_all_comments returned *)

build_html ==
    /\ pc = "done"
    /\ pc' = "built"
    /\ comments' = Reconcile(comments)
    /\ roots_sorted' = sorted_roots(RootsOf(Reconcile(comments)))
    /\ children' = ChildrenOf(Reconcile(comments))
    /\ items' = RenderItems(sorted_roots(RootsOf(Reconcile(comments))),
                            ChildrenOf(Reconcile(comments)), Len(comments) + 1)
    /\ UNCHANGED <<max_pages, fetching, seen, paging, threading, embedding, outcome>>

----------------------------------------------------------------------------
(* url_to_data_uri on its own *)

AllOutcomes == [1..MAX_RETRIES -> AttemptOutcomes]

\* what the GETs of one URL do within a run of collect_all_comments: a
\* success at once, a success at the last attempt, no success
EmbedOutcomes ==
    {<<"ok", "ok", "ok">>,
     <<"exception", "bad_response", "ok">>,
     <<"bad_response", "exception", "bad_response">>}

\* no run of collect_all_comments; one call of url_to_data_uri is pending
InitFetch ==
    /\ Start
    /\ max_pages = 0
    /\ pc = "fetch"
    /\ api = FreeServer
    /\ fetch_in \in [url : Urls, outcomes : AllOutcomes]
    /\ fetch_out = NoFetchOut

Fetch ==
    /\ pc = "fetch"
    /\ ~fetch_out.done
    /\ LET r == url_to_data_uri(fetch_in.url, fetch_in.outcomes)
       IN fetch_out' = [done |-> TRUE, result |-> r.result, attempts |-> r.attempts,
                        sleeps |-> r.sleeps, raised |-> r.raised]
    /\ UNCHANGED <<pc, max_pages, tree, fetch_in, collection, paging, threading,
                   embedding, outcome>>

NextFetch == Fetch

SpecFetch == InitFetch /\ [][NextFetch]_vars

----------------------------------------------------------------------------

Next ==
    \/ FirstPageFail
    \/ pc = "first" /\ \E batch \in Responses(api) : FirstPageOk(batch)
    \/ PaginateExit
    \/ PageCallFail
    \/ pc = "paginate" /\ \E batch \in Responses(api) : PageCallOk(batch)
    \/ ThreadSkip
    \/ ThreadCallFail
    \/ pc = "threads" /\ \E batch \in ThreadBatches : ThreadCallOk(batch)
    \/ ThreadsDone
    \/ \E url \in Urls, outcomes \in EmbedOutcomes : AvatarFetch(url, outcomes)
    \/ AvatarsDone
    \/ \E url \in Urls, outcomes \in EmbedOutcomes : ImageFetch(url, outcomes)
    \/ Return
    \/ build_html

Spec == Init /\ [][Next]_vars

----------------------------------------------------------------------------
(* Properties *)

\* the number of comments now in the collection that belong to thread rid
HaveNow(rid) == CountInThread(comments, rid)

\* the non-empty avatar URLs of the collection
AvatarUrlSet == {comments[i].user.ava : i \in DOMAIN comments} \ {""}

\* C1: in every state of a run no two comments of the collection have the
\* same id, whatever the server returned and however often
C1_UniqueIds ==
    \A i, j \in DOMAIN comments : i # j => comments[i].id # comments[j].id

\* a run that returned after the first page, an older page that repeated the
\* first page, and a thread fetch
C1_Witness ==
    /\ pc = "done"
    /\ Len(first_raw) = 2
    /\ pages_done >= 1
    /\ all_same
    /\ \E rid \in Ids : thread_calls[rid] > 0
    /\ Len(comments) >= 2

\* C2: a transport failure on an older-page call does not leave the run as
\* an exception: pagination stops and the run goes on to return
C2_PageFailureKeepsCollected ==
    page_failed => pc \in {"threads", "avatars", "images", "done"}

\* the first-page call and every older-page call returned the same single
\* parseable record with a positive sort key
SameSingleRecord ==
    /\ Len(first_raw) = 1
    /\ ~parse_comment_raises(first_raw[1])
    /\ sort_of(first_raw[1]).v > 0
    /\ all_same

\* C3: when the API returns the same single record (sort key > 0) to the
\* first call and to every older-page call, pagination is over after the
\* first older-page call, below the safety cap
C3_SameRecordStops ==
    (SameSingleRecord /\ pages_done >= 1) => (pc # "paginate" /\ pages_done = 1)

\* pagination stopped after one repeated page although the cap allowed more
C3_Witness ==
    /\ SameSingleRecord
    /\ pages_done = 1
    /\ max_pages >= 2
    /\ pc = "threads"

\* C4: when the thread loop passes a root, it issues one thread-fetch call
\* if the root's expected reply count exceeds the number of comments now in
\* the collection with that root-id, and none otherwise; no root gets more
\* than one call
C4_ThreadCallIffUnderCaptured ==
    [][(pc = "threads" /\ ri <= Len(roots) /\ (ri' = ri + 1 \/ pc' = "aborted")) =>
          /\ thread_calls'[roots[ri].id] = thread_calls[roots[ri].id] +
                (IF roots[ri].reply_expected > HaveNow(roots[ri].id) THEN 1 ELSE 0)
          /\ thread_calls'[roots[ri].id] <= 1]_vars

\* C5: a thread-fetch call that fails at the transport level leaves the
\* collection as it was, raises nothing and moves the loop to the next root
C5_ThreadFailureNonFatal ==
    [][thread_fails' # thread_fails =>
          /\ comments' = comments
          /\ seen' = seen
          /\ pc' = "threads"
          /\ ri' = ri + 1
          /\ error' = "none"
          /\ ret' = ret]_vars

\* a run returned although the thread fetch of one root failed, and the
\* thread fetch of another root was issued and answered
C5_Witness ==
    /\ pc = "done"
    /\ ret.returned
    /\ \E r1, r2 \in Ids :
          /\ r1 \in thread_fails
          /\ r2 \notin thread_fails
          /\ thread_calls[r2] = 1

\* C6: a transport failure on the first-page call is raised to the caller:
\* nothing is returned and no older-page, thread-fetch or binary-fetch call
\* is issued
C6_FirstFailureAborts ==
    first_failed =>
        /\ pc = "aborted"
        /\ error = "first_transport"
        /\ ~ret.returned
        /\ pages_done = 0
        /\ ~page_failed
        /\ \A rid \in Ids : thread_calls[rid] = 0
        /\ \A u \in Urls : ava_calls[u] = 0 /\ img_calls[u] = 0

C6_Witness == first_failed /\ pc = "aborted"

\* C7: a raw record without the id field never makes parse_comment abort the
\* batch or the run
C7_MissingIdSkipped ==
    raised_on # <<>> => raised_on[1].id.t # "absent"

\* C8: parse_comment raises on no raw record that has a valid id, whatever
\* the shape of its optional fields
C8_ValidIdNeverRaises ==
    raised_on # <<>> => id_of(raised_on[1]) = Raise

\* C9: within one run url_to_data_uri is invoked at most once for each URL,
\* the avatar pass and the linked-image pass taken together
C9_UrlFetchedOncePerRun ==
    \A u \in Urls : ava_calls[u] + img_calls[u] <= 1

\* C10: the avatar pass invokes url_to_data_uri exactly once for every
\* non-empty avatar URL, however many authors share it, and every author
\* with that URL gets the same per-URL result
C10_AvatarOncePerUrl ==
    /\ \A u \in Urls : ava_calls[u] <= 1
    /\ pc \in {"images", "done"} =>
          \A u \in AvatarUrlSet :
              /\ ava_calls[u] = 1
              /\ \A i \in DOMAIN comments :
                    comments[i].user.ava = u =>
                        comments[i].user.ava_data_uri =
                            (IF ava_cache[u] = None THEN "" ELSE ava_cache[u])

\* two authors share an avatar URL that was resolved
C10_Witness ==
    /\ pc = "done"
    /\ \E i, j \in DOMAIN comments :
          /\ i # j
          /\ comments[i].user.ava # ""
          /\ comments[i].user.ava = comments[j].user.ava
          /\ comments[i].user.ava_data_uri = DataUri(comments[i].user.ava)

----------------------------------------------------------------------------
(* Properties of url_to_data_uri and of the tree assembly *)

\* C11: with retry bound 3, url_to_data_uri returns the inline
\* representation when the first two attempts fail and the third succeeds,
\* returns None after exactly MAX_RETRIES attempts when every attempt fails,
\* and raises nothing in either case
C11_FetchResilience ==
    fetch_out.done =>
        LET o == fetch_in.outcomes
        IN /\ ~fetch_out.raised
           /\ (o[1] # "ok" /\ o[2] # "ok" /\ o[3] = "ok") =>
                 /\ fetch_out.result = DataUri(fetch_in.url)
                 /\ fetch_out.attempts = 3
           /\ (\A k \in 1..MAX_RETRIES : o[k] # "ok") =>
                 /\ fetch_out.result = None
                 /\ fetch_out.attempts = MAX_RETRIES

\* an exception, then a bad response, then a success
C11_Witness ==
    /\ fetch_out.done
    /\ fetch_in.outcomes = <<"exception", "bad_response", "ok">>
    /\ fetch_out.result = DataUri(fetch_in.url)

\* the position of the comment with this id in the collection
Pos(id) == CHOOSE i \in DOMAIN comments : comments[i].id = id

\* s holds the same comments as t, each once
SameComments(s, t) ==
    /\ Len(s) = Len(t)
    /\ {s[i].id : i \in DOMAIN s} = {t[i].id : i \in DOMAIN t}

\* s is ordered by sort key (dir = 1 ascending, -1 descending) and comments
\* with equal sort keys are in the order of their insertion
OrderedStable(s, dir) ==
    \A i, j \in DOMAIN s :
        i < j =>
            \/ dir * s[i].sort < dir * s[j].sort
            \/ s[i].sort = s[j].sort /\ Pos(s[i].id) < Pos(s[j].id)

\* C12: in the assembled tree the roots are in descending order of sort key,
\* the children of every parent are rendered in ascending order of sort key,
\* and comments with equal sort keys keep their insertion order
C12_TreeOrder ==
    pc = "built" =>
        /\ SameComments(roots_sorted, RootsOf(comments))
        /\ OrderedStable(roots_sorted, -1)
        /\ \A p \in Ids :
              /\ SameComments(sorted_kids(children[p]), children[p])
              /\ OrderedStable(sorted_kids(children[p]), 1)

\* a tree with two roots of equal sort key and two replies of equal sort key
\* under one parent
C12_Witness ==
    /\ pc = "built"
    /\ \E i, j \in DOMAIN roots_sorted :
          i < j /\ roots_sorted[i].sort = roots_sorted[j].sort
    /\ \E p \in Ids : \E i, j \in DOMAIN children[p] :
          i < j /\ children[p][i].sort = children[p][j].sort
    /\ \E i, j \in DOMAIN roots_sorted :
          i < j /\ roots_sorted[i].sort > roots_sorted[j].sort

\* C13: the reconciliation of build_html leaves every reply with an
\* inferred parent that is in the collection or is its root-id, gives a
\* reply without a parent reference its root-id, and gives every root 0
C13_Reconciled ==
    [][(pc = "done" /\ pc' = "built") =>
          /\ DOMAIN comments' = DOMAIN comments
          /\ \A i \in DOMAIN comments :
                LET before == comments[i]
                    after == comments'[i]
                IN /\ after.answer_comment_root_id # 0 =>
                         \/ after.parent_id \in ById(comments')
                         \/ after.parent_id = after.answer_comment_root_id
                   /\ (after.answer_comment_root_id # 0 /\ before.parent_id = 0) =>
                         after.parent_id = after.answer_comment_root_id
                   /\ after.answer_comment_root_id = 0 => after.parent_id = 0]_vars

\* a tree with a reply that names no parent, a reply that names a comment
\* missing from the collection, and a root whose body names a comment
C13_Witness ==
    /\ pc = "built"
    /\ \E i \in DOMAIN comments :
          /\ comments[i].id = 9
          /\ comments[i].parent_id = 2
    /\ \E i \in DOMAIN comments :
          /\ comments[i].id = 14
          /\ comments[i].parent_id = 2
          /\ 3 \notin ById(comments)
    /\ \E i \in DOMAIN comments :
          /\ comments[i].id = 11
          /\ comments[i].parent_id = 0

\* the inferred parent of the comment with this id
ParentOf(id) == comments[Pos(id)].parent_id

\* following inferred parents from id reaches target within n steps
RECURSIVE Climbs(_, _, _)
Climbs(id, target, n) ==
    IF id = target THEN target \in ById(comments)
    ELSE IF n = 0 \/ id \notin ById(comments) THEN FALSE
    ELSE Climbs(ParentOf(id), target, n - 1)

\* C14: in the final collection the inferred parents of every reply lead,
\* in finitely many steps, to the root named by its root-id
C14_ParentsLeadToRoot ==
    pc = "built" =>
        \A i \in DOMAIN comments :
            comments[i].answer_comment_root_id # 0 =>
                /\ Climbs(comments[i].parent_id, comments[i].answer_comment_root_id,
                          Len(comments))
                /\ comments[Pos(comments[i].answer_comment_root_id)].answer_comment_root_id = 0

----------------------------------------------------------------------------
(* Properties of merging and of the pagination cursor *)

\* C15: a step of thread completion keeps every comment held before it at
\* its position with all its fields, and only appends comments whose ids
\* were not held
C15_ThreadMergeAdditive ==
    [][pc = "threads" =>
          /\ Len(comments') >= Len(comments)
          /\ \A i \in DOMAIN comments : comments'[i] = comments[i]
          /\ \A k \in (Len(comments) + 1)..Len(comments') :
                comments'[k].id \notin ById(comments)]_vars

\* pagination added nothing to the first page <<RootB>>, and the thread
\* fetch for root 2 appended a comment
C15_Witness ==
    /\ first_raw = <<RootB>>
    /\ pages_done = 0
    /\ thread_calls[2] = 1
    /\ Len(comments) = 2
    /\ comments[1].id = 2

\* the fields of a comment that come from its raw record
RawFields(c) ==
    <<c.id, c.sort, c.answer_comment_root_id, c.reply_expected, c.links, c.user.ava>>

\* C16: first-seen wins: the first record of the first page is stored as
\* parsed, and no later step (first page, older page or thread fetch, with
\* records of ids already held) changes the sort key, root-id, body links,
\* author or expected reply count of a comment held
C16_FirstSeenWins ==
    [][/\ \A i \in DOMAIN comments :
             /\ i \in DOMAIN comments'
             /\ RawFields(comments'[i]) = RawFields(comments[i])
       /\ (pc = "first" /\ first_raw' # <<>> /\ ~parse_comment_raises(first_raw'[1])) =>
             RawFields(comments'[1]) = RawFields(parse_comment(first_raw'[1]))
       /\ (pages_done' = pages_done + 1 /\ all_same' /\ pc' # "aborted") =>
             comments' = comments]_vars

\* the first page held record RootA and then another record of id 1 with
\* other field values: the collection keeps RootA
C16_Witness ==
    /\ first_raw = <<RootA, RootA2>>
    /\ pc = "paginate"
    /\ Len(comments) = 1
    /\ comments[1].sort = 2
    /\ comments[1].reply_expected = 1

\* the smallest sort key held
MinHeld ==
    CHOOSE m \in {comments[i].sort : i \in DOMAIN comments} :
        \A i \in DOMAIN comments : m <= comments[i].sort

\* C17: every older-page call is anchored at the smallest sort key over all
\* comments held at the call, roots and replies alike, and none is issued
\* when the collection is empty or that minimum is <= 0
C17_CursorIsMinimum ==
    [][cursors' # cursors =>
          /\ comments # <<>>
          /\ MinHeld > 0
          /\ cursors' = Append(cursors, MinHeld)]_vars

\* an older-page call anchored at the sort key of a reply, below the sort
\* key of the root held with it
C17_Witness ==
    /\ cursors # <<>>
    /\ \E i, j \in DOMAIN comments :
          /\ comments[i].answer_comment_root_id # 0
          /\ comments[i].sort = cursors[1]
          /\ comments[j].answer_comment_root_id = 0
          /\ comments[j].sort > cursors[1]
    /\ \A j \in DOMAIN comments :
          comments[j].answer_comment_root_id = 0 => comments[j].sort > cursors[1]

\* the last older-page call returned no record or added no new record
LastPageEnded == last_page.returned = 0 \/ last_page.added = 0

\* C18: at most max_pages older-page calls are issued, none after a call
\* that returned zero records or added zero new records, and the pages value
\* of the returned metadata is the number of older-page calls issued
C18_PagesBounded ==
    [][/\ Len(cursors') <= max_pages
       /\ LastPageEnded => cursors' = cursors
       /\ ret'.returned => ret'.pages = Len(cursors')]_vars

\* a run that returned after max_pages = 2 older-page calls which both
\* added records
C18_Witness ==
    /\ ret.returned
    /\ max_pages = 2
    /\ ret.pages = 2
    /\ ~LastPageEnded

\* the sort keys of a list of comments
SortKeys(s) == [i \in DOMAIN s |-> s[i].sort]

\* C19: end to end: the first call returns roots with sort keys 10, 20, 15,
\* the first older-page call one new root with sort key 5, the next one no
\* records; the run ends with 4 comments, root order 20, 15, 10, 5 and no
\* thread-fetch call
C19_EndToEnd ==
    (api.on /\ api.served = EndToEndScript /\ pc = "built") =>
        /\ Len(comments) = 4
        /\ SortKeys(roots_sorted) = <<20, 15, 10, 5>>
        /\ \A rid \in Ids : thread_calls[rid] = 0

C19_Witness ==
    /\ api.on
    /\ api.served = EndToEndScript
    /\ pc = "built"
    /\ pages_done = 2

\* C20 as claimed: whenever an older-page call added a record and another
\* older-page call follows, the cursor of the next call is strictly smaller
C20_StrictProgress ==
    [][(cursors' # cursors /\ cursors # <<>> /\ last_page.added >= 1) =>
          cursors'[Len(cursors')] < cursors[Len(cursors)]]_vars

\* C20 as amended: the cursor of the next older-page call is never larger
\* than that of the call before it, and it is strictly smaller exactly when
\* that call added a record with a sort key below its cursor
C20_ProgressIffOlder ==
    [][(cursors' # cursors /\ cursors # <<>>) =>
          LET prev == cursors[Len(cursors)]
              next == cursors'[Len(cursors')]
          IN /\ next <= prev
             /\ last_page.added >= 1
             /\ next < prev <=>
                   \E k \in (Len(comments) - last_page.added + 1)..Len(comments) :
                       comments[k].sort < prev]_vars

\* two older-page calls, the second with a smaller cursor
C20_Witness ==
    /\ Len(cursors) >= 2
    /\ cursors[2] < cursors[1]
    /\ last_page.added >= 1

\* C21: over any run the cursors passed to successive older-page calls are
\* non-increasing
C21_CursorNonIncreasing ==
    \A i, j \in DOMAIN cursors : i < j => cursors[j] <= cursors[i]

\* a run that returned after two older-page calls with the same cursor: the
\* first of them added only records with sort keys at or above it
C21_Witness ==
    /\ ret.returned
    /\ Len(cursors) = 2
    /\ cursors[2] = cursors[1]
    /\ Len(comments) >= 2

----------------------------------------------------------------------------
(* Properties of the backoff of url_to_data_uri and of rendering *)

\* the attempts url_to_data_uri makes on these outcomes: up to and
\* including the first success
AttemptsMade(o) ==
    IF \E k \in DOMAIN o : o[k] = "ok"
    THEN CHOOSE k \in DOMAIN o : o[k] = "ok" /\ \A h \in 1..(k - 1) : o[h] # "ok"
    ELSE Len(o)

\* the failed ones among them
FailedAttempts(o) == {k \in 1..AttemptsMade(o) : o[k] # "ok"}

\* base doubled n times
RECURSIVE Doubled(_, _)
Doubled(base, n) == IF n = 0 THEN base ELSE 2 * Doubled(base, n - 1)

\* C22: url_to_data_uri waits once after each failed attempt and never after
\* a successful one, and the wait after the k-th failed attempt is the base
\* delay of 0.25 s doubled k-1 times: 0.25 s, 0.5 s, 1 s
C22_BackoffDelays ==
    fetch_out.done =>
        /\ DOMAIN fetch_out.sleeps = FailedAttempts(fetch_in.outcomes)
        /\ \A k \in DOMAIN fetch_out.sleeps :
              fetch_out.sleeps[k] = Doubled(BASE_DELAY, k - 1)
        /\ Len(fetch_out.sleeps) = 3 => fetch_out.sleeps = <<25, 50, 100>>
        /\ fetch_in.outcomes[1] = "ok" => fetch_out.sleeps = <<>>

\* three failed attempts, each followed by its wait
C22_Witness ==
    /\ fetch_out.done
    /\ fetch_in.outcomes = <<"bad_response", "exception", "bad_response">>
    /\ fetch_out.sleeps = <<25, 50, 100>>
    /\ fetch_out.result = None

\* the positions at which this id is emitted
EmittedAt(id) == {k \in DOMAIN items.ids : items.ids[k] = id}

\* C23: rendering from the assembled roots and children mapping ends and
\* emits each collected comment at most once (and nothing else), also when
\* the inferred parents of replies name themselves or form a cycle
C23_RenderEndsEachOnce ==
    pc = "built" =>
        /\ items.ok
        /\ \A id \in ById(comments) : Cardinality(EmittedAt(id)) <= 1
        /\ \A k \in DOMAIN items.ids : items.ids[k] \in ById(comments)
        /\ \A i \in DOMAIN roots_sorted :
              Cardinality(EmittedAt(roots_sorted[i].id)) = 1

\* a rendered collection with root 2, reply 3 under it and reply 14 under
\* reply 3, in which replies 12 and 13 are each other's parent and reply 15
\* is its own parent
C23_Witness ==
    /\ pc = "built"
    /\ {2, 3, 12, 13, 14, 15} \subseteq ById(comments)
    /\ ParentOf(12) = 13
    /\ ParentOf(13) = 12
    /\ ParentOf(15) = 15
    /\ items.ids = <<2, 3, 14>>

====
